---- MODULE Spec2Model ----
(***************************************************************************)
(* A model of the qub crate: Qubit (src/src/qubit.rs) and QuGate           *)
(* (src/src/qugate.rs).                                                    *)
(*                                                                         *)
(* The crate is generic over T: Float.  The model instantiates T at f64,   *)
(* the type the crate's tests use, and computes in binary floating point   *)
(* with Prec significant bits and round-to-nearest-even, so that exact     *)
(* equalities (PartialEq on Qubit, validate) are decided by the rounded    *)
(* values the program computes and not by real arithmetic.                 *)
(*                                                                         *)
(* Numbers: a finite float is [sgn, man, exp] and stands for               *)
(* (-1)^sgn * man * 2^exp, where man is zero or has exactly Prec bits.     *)
(* Both zeros of IEEE 754 are one value here (0.0 == -0.0 in Rust, and     *)
(* norm_sqr and < do not tell them apart).  The model's inputs are finite  *)
(* and of moderate size: no overflow, underflow, infinity or NaN arises    *)
(* within the bounds.  Significands are naturals wider than TLC's          *)
(* integers, kept as little-endian sequences of Limb-bit digits.           *)
(***************************************************************************)
EXTENDS Integers, Sequences, FiniteSets, TLC

(***************************************************************************)
(* Natural numbers of arbitrary width: little-endian sequences of digits   *)
(* below Base (high zero digits allowed unless said otherwise).            *)
(***************************************************************************)
\* A digit holds Limb bits; a column of four products of two digits stays
\* below 2^31.
Base == 2 ^ 14

Limb == CHOOSE k \in 1..30 : 2 ^ k = Base

Max(x, y) == IF x >= y THEN x ELSE y

\* The element of a one-element set.
The(S) == CHOOSE v \in S : TRUE

\* The digit of weight Base^(i-1), zero outside the sequence.
BDigit(a, i) == IF i >= 1 /\ i <= Len(a) THEN a[i] ELSE 0

\* The number of digits up to the highest nonzero one.
BTop(a) == CHOOSE i \in 0..Len(a) : (i = 0 \/ a[i] # 0) /\ \A j \in (i + 1)..Len(a) : a[j] = 0

\* Drop the high zero digits.
BNorm(a) == SubSeq(a, 1, BTop(a))

\* The number of bits of a digit d < Base.
BitLenInt(d) == CHOOSE k \in 0..Limb : d < 2 ^ k /\ (k = 0 \/ d >= 2 ^ (k - 1))

\* The number of bits of a normalised a (0 for zero).
BBitLen(a) == IF a = << >> THEN 0 ELSE (Limb * (Len(a) - 1)) + BitLenInt(a[Len(a)])

BOdd(a) == a # << >> /\ a[1] % 2 = 1

BFromInt(d) == BNorm(<< d % Base, d \div Base >>)

\* -1, 0 or 1 as a < b, a = b or a > b: by the highest digit that differs.
BCmp(a, b) ==
    LET n == Max(Len(a), Len(b))
        D == {i \in 1..n : BDigit(a, i) # BDigit(b, i)}
    IN  IF D = {} THEN 0
        ELSE LET i == CHOOSE d \in D : \A j \in D : j <= d
             IN  IF BDigit(a, i) > BDigit(b, i) THEN 1 ELSE -1

\* The number whose digit columns hold the values s, each at most
\* 2 * Base - 2: a column carries 1 into column i if it overflows by itself,
\* or is full and is carried into.
BResolve(s) ==
    LET carry(i) == \E j \in 1..(i - 1) :
                        s[j] >= Base /\ \A k \in (j + 1)..(i - 1) : s[k] = Base - 1
    IN  BNorm([i \in 1..(Len(s) + 1) |->
                  (BDigit(s, i) + (IF carry(i) THEN 1 ELSE 0)) % Base])

BAdd(a, b) == BResolve([i \in 1..Max(Len(a), Len(b)) |-> BDigit(a, i) + BDigit(b, i)])

\* a - b, for a >= b: column i borrows from column i + 1 if it is too small
\* by itself, or is level and is borrowed from.
BSub(a, b) ==
    LET borrow(i) == \E j \in 1..(i - 1) :
                         a[j] < BDigit(b, j) /\ \A k \in (j + 1)..(i - 1) : a[k] = BDigit(b, k)
    IN  BNorm([i \in 1..Len(a) |->
                  ((a[i] - BDigit(b, i)) - (IF borrow(i) THEN 1 ELSE 0) + Base) % Base])

\* a * b, for a of at most four digits: the column sums, each below 2^30,
\* are split into their three digits, the digits of a weight added up (at
\* most 2 * Base + 1), split again (at most Base + 1) and resolved.
BMul(a, b) ==
    LET n == Len(a) + Len(b)
    IN  The({ The({ BResolve([k \in 1..n |-> (BDigit(r, k) % Base) + (BDigit(r, k - 1) \div Base)])
                  : r \in {[k \in 1..n |-> (BDigit(c, k) % Base)
                                           + ((BDigit(c, k - 1) \div Base) % Base)
                                           + (BDigit(c, k - 2) \div (Base * Base))]} })
            : c \in {[k \in 1..n |-> (BDigit(a, 1) * BDigit(b, k))
                                     + (BDigit(a, 2) * BDigit(b, k - 1))
                                     + (BDigit(a, 3) * BDigit(b, k - 2))
                                     + (BDigit(a, 4) * BDigit(b, k - 3))]} })

\* a * 2^n.
BShl(a, n) ==
    LET q == n \div Limb
        f == 2 ^ (n % Limb)
    IN  BNorm([i \in 1..(Len(a) + q + 1) |->
                  ((BDigit(a, i - q) * f) % Base) + ((BDigit(a, i - q - 1) * f) \div Base)])

\* floor(a / 2^n).
BShr(a, n) ==
    LET q == n \div Limb
        f == 2 ^ (n % Limb)
        g == 2 ^ (Limb - (n % Limb))
    IN  BNorm([i \in 1..Max(Len(a) - q, 0) |->
                  (a[i + q] \div f) + ((BDigit(a, i + q + 1) % f) * g)])

\* One step of long division by b in base 2^7: from << q, r >> with r < b
\* to << 2^7 q + d, 2^7 r - d b >> with d the next digit of the quotient.
BDivStep(st, b) ==
    The({ The({ << BAdd(BShl(qr[1], 7), BFromInt(d)), BSub(r, BMul(BFromInt(d), b)) >>
              : d \in {k \in 0..127 : /\ BCmp(BMul(BFromInt(k), b), r) <= 0
                                      /\ BCmp(BMul(BFromInt(k + 1), b), r) > 0} })
        : qr \in {st}, r \in {BShl(st[2], 7)} })

\* << floor(2^56 a / b), the remainder >>, for 0 < a < 2 b: the leading bit,
\* then eight digits of 7 bits.
BDiv56(a, b) ==
    LET st0 == IF BCmp(a, b) >= 0 THEN << << 1 >>, BSub(a, b) >> ELSE << << >>, a >>
    IN  BDivStep(BDivStep(BDivStep(BDivStep(
        BDivStep(BDivStep(BDivStep(BDivStep(st0, b), b), b), b), b), b), b), b)

\* One step of the square root of a in base 2^7: from r, a multiple of
\* 2^(7 (j + 1)) with r^2 <= a, to the largest r + d 2^(7 j) with that.
BSqrtStep(r, a, j) ==
    The({ The({ BAdd(rr, BShl(BFromInt(d), 7 * j))
              : d \in {k \in 0..127 :
                          /\ LET c == BAdd(rr, BShl(BFromInt(k), 7 * j))
                             IN  BCmp(BMul(c, c), a) <= 0
                          /\ k = 127 \/ LET c == BAdd(rr, BShl(BFromInt(k + 1), 7 * j))
                                        IN  BCmp(BMul(c, c), a) > 0} })
        : rr \in {r} })

\* floor(sqrt(a)), for a < 2^112: eight digits of 7 bits.
BSqrt(a) ==
    BSqrtStep(BSqrtStep(BSqrtStep(BSqrtStep(
    BSqrtStep(BSqrtStep(BSqrtStep(BSqrtStep(<< >>, a, 7), a, 6), a, 5), a, 4),
        a, 3), a, 2), a, 1), a, 0)

(***************************************************************************)
(* Binary floating point, round to nearest, ties to even                   *)
(***************************************************************************)
\* The significand widths of T (f64 in the crate's tests) and of f64, the
\* type measure() compares in.
Prec == 53

F64Prec == 53

FZero == [sgn |-> 0, man |-> << >>, exp |-> 0]

IsZero(x) == x.man = << >>

\* The float of p significant bits nearest to (-1)^s * (m + t) * 2^e, for m
\* normalised, where 0 <= t < 1 and sticky says whether t > 0 (only for m of
\* more than p bits).
FRound(p, s, m, e, sticky) ==
    IF m = << >> THEN FZero
    ELSE The({ IF bl <= p
               THEN [sgn |-> s, man |-> BShl(m, p - bl), exp |-> e - (p - bl)]
               ELSE The({ LET rem == BSub(m, BShl(q, bl - p))
                              c   == BCmp(rem, BShl(<< 1 >>, bl - p - 1))
                              up  == c = 1 \/ (c = 0 /\ (sticky \/ BOdd(q)))
                          IN  IF ~up THEN [sgn |-> s, man |-> q, exp |-> e + bl - p]
                              ELSE The({ IF BBitLen(q2) > p
                                         THEN [sgn |-> s, man |-> BShr(q2, 1), exp |-> e + bl - p + 1]
                                         ELSE [sgn |-> s, man |-> q2, exp |-> e + bl - p]
                                       : q2 \in {BAdd(q, << 1 >>)} })
                        : q \in {BShr(m, bl - p)} })
             : bl \in {BBitLen(m)} })

\* T::from(d) for a small integer d, and d / 2^k.
FDyadic(p, d, k) ==
    IF d >= 0 THEN FRound(p, 0, BFromInt(d), -k, FALSE)
    ELSE FRound(p, 1, BFromInt(-d), -k, FALSE)

FInt(p, d) == FDyadic(p, d, 0)

FNeg(x) == IF IsZero(x) THEN x ELSE [x EXCEPT !.sgn = 1 - x.sgn]

FMul(p, x, y) ==
    IF IsZero(x) \/ IsZero(y) THEN FZero
    ELSE FRound(p, (x.sgn + y.sgn) % 2, BMul(x.man, y.man), x.exp + y.exp, FALSE)

\* x + y for x.exp >= y.exp, neither zero, both of p bits.
FAddOrdered(p, x, y) ==
    IF x.exp - y.exp > p + 1
    THEN x  \* y is below a quarter of the last place of x
    ELSE The({ IF x.sgn = y.sgn THEN FRound(p, x.sgn, BAdd(a, y.man), y.exp, FALSE)
               ELSE IF BCmp(a, y.man) >= 0 THEN FRound(p, x.sgn, BSub(a, y.man), y.exp, FALSE)
               ELSE FRound(p, y.sgn, BSub(y.man, a), y.exp, FALSE)
             : a \in {BShl(x.man, x.exp - y.exp)} })

\* x + y, for x and y of p bits.
FAdd(p, x, y) ==
    IF IsZero(x) THEN y
    ELSE IF IsZero(y) THEN x
    ELSE IF x.exp >= y.exp THEN FAddOrdered(p, x, y)
    ELSE FAddOrdered(p, y, x)

FSub(p, x, y) == FAdd(p, x, FNeg(y))

\* x / y for x and y of p <= 53 bits, y nonzero: the quotient of the
\* significands to 56 bits or more, the remainder as the sticky bit.
FDiv(p, x, y) ==
    IF IsZero(x) THEN FZero
    ELSE The({ FRound(p, (x.sgn + y.sgn) % 2, qr[1], x.exp - y.exp - 56, qr[2] # << >>)
             : qr \in {BDiv56(x.man, y.man)} })

\* sqrt(x) for x >= 0 of p <= 53 bits: the integer square root of the
\* significand scaled to 2 p + 2 bits or more with an even exponent.
FSqrt(p, x) ==
    IF IsZero(x) THEN FZero
    ELSE LET k == IF (x.exp - (p + 2)) % 2 = 0 THEN p + 2 ELSE p + 3
         IN  The({ The({ FRound(p, 0, r, (x.exp - k) \div 2, BMul(r, r) # a)
                       : r \in {BSqrt(a)} })
                 : a \in {BShl(x.man, k)} })

\* -1, 0 or 1 as |x| < |y|, |x| = |y| or |x| > |y|, whatever the widths of
\* x and y: by the position of the top bit, then by the aligned significands.
FMagCmp(x, y) ==
    IF IsZero(x) THEN (IF IsZero(y) THEN 0 ELSE -1)
    ELSE IF IsZero(y) THEN 1
    ELSE LET bx == BBitLen(x.man)
             by == BBitLen(y.man)
         IN  IF x.exp + bx > y.exp + by THEN 1
             ELSE IF x.exp + bx < y.exp + by THEN -1
             ELSE BCmp(BShl(x.man, Max(bx, by) - bx), BShl(y.man, Max(bx, by) - by))

\* x < y by value.
FLt(x, y) ==
    IF IsZero(x) THEN ~IsZero(y) /\ y.sgn = 0
    ELSE IF IsZero(y) THEN x.sgn = 1
    ELSE IF x.sgn # y.sgn THEN x.sgn = 1
    ELSE IF x.sgn = 0 THEN FMagCmp(x, y) = -1
    ELSE FMagCmp(x, y) = 1

\* x == y by value.
FEq(x, y) == ~FLt(x, y) /\ ~FLt(y, x)

(***************************************************************************)
(* num::complex::Complex<T>                                                *)
(***************************************************************************)
\* T::zero(), T::one(), -T::one().
T_zero == FInt(Prec, 0)

T_one == FInt(Prec, 1)

T_neg_one == FNeg(T_one)

Complex_new(re, im) == [re |-> re, im |-> im]

\* Complex addition and multiplication, each part rounded as T rounds.
CAdd(x, y) == Complex_new(FAdd(Prec, x.re, y.re), FAdd(Prec, x.im, y.im))

CMul(x, y) ==
    Complex_new(FSub(Prec, FMul(Prec, x.re, y.re), FMul(Prec, x.im, y.im)),
                FAdd(Prec, FMul(Prec, x.re, y.im), FMul(Prec, x.im, y.re)))

\* Complex::norm_sqr: re * re + im * im.
norm_sqr(x) == FAdd(Prec, FMul(Prec, x.re, x.re), FMul(Prec, x.im, x.im))

(***************************************************************************)
(* Qubit (src/src/qubit.rs)                                                *)
(***************************************************************************)
\* Qubit::new: the state vector array![alpha, beta], stored as given.
Qubit_new(alpha, beta) == [state |-> << alpha, beta >>]

Qubit_zero == Qubit_new(Complex_new(T_one, T_zero), Complex_new(T_zero, T_zero))

Qubit_one == Qubit_new(Complex_new(T_zero, T_zero), Complex_new(T_one, T_zero))

Qubit_default == Qubit_zero

get_state(q) == q.state

\* The vector is indexed from 0 in the code and from 1 here.
alpha(q) == q.state[1]

beta(q) == q.state[2]

\* state.mapv(|x| x.norm_sqr())
probabilities(q) == << norm_sqr(q.state[1]), norm_sqr(q.state[2]) >>

zero_probability(q) == The({ p[1] : p \in {probabilities(q)} })

one_probability(q) == The({ p[2] : p \in {probabilities(q)} })

\* Variant of validate: the sum is compared with <= in place of ==.
validate_le(q) ==
    The({ ~FLt(T_one, FAdd(Prec, p[1], p[2])) : p \in {probabilities(q)} })

validate(q) ==
    The({ FEq(FAdd(Prec, p[1], p[2]), T_one) : p \in {probabilities(q)} })

\* T::to_f64: the f64 nearest to x.
to_f64(x) == FRound(F64Prec, x.sgn, x.man, x.exp, FALSE)

\* Variant of measure: the sample is compared with <= in place of <.
measure_le(q, r) ==
    IF FLt(to_f64(zero_probability(q)), r) THEN Qubit_one ELSE Qubit_zero

\* Variant of measure: the two branches return each other's outcome.
measure_swapped(q, r) ==
    IF FLt(r, to_f64(zero_probability(q))) THEN Qubit_one ELSE Qubit_zero

\* Qubit::measure, for the sample r that random::<f64>() returns.
measure(q, r) ==
    IF FLt(r, to_f64(zero_probability(q))) THEN Qubit_zero ELSE Qubit_one

(***************************************************************************)
(* QuGate (src/src/qugate.rs)                                              *)
(***************************************************************************)
QuGate_new(matrix) == [matrix |-> matrix]

\* Array2::dot(Array1): row k of the matrix times the vector.
Dot(matrix, v) ==
    LET Row(k) == CAdd(CMul(matrix[k][1], v[1]), CMul(matrix[k][2], v[2]))
    IN  << Row(1), Row(2) >>

QuGate_apply(gate, q) == [state |-> Dot(gate.matrix, q.state)]

\* Variant of pauli_x: the ones are on the diagonal.
pauli_x_diagonal ==
    QuGate_new(<< << Complex_new(T_one, T_zero), Complex_new(T_zero, T_zero) >>,
                  << Complex_new(T_zero, T_zero), Complex_new(T_one, T_zero) >> >>)

pauli_x ==
    QuGate_new(<< << Complex_new(T_zero, T_zero), Complex_new(T_one, T_zero) >>,
                  << Complex_new(T_one, T_zero), Complex_new(T_zero, T_zero) >> >>)

\* Variant of pauli_y: the second row holds -i.
pauli_y_lower_negated ==
    QuGate_new(<< << Complex_new(T_zero, T_zero), Complex_new(T_zero, T_one) >>,
                  << Complex_new(T_zero, T_neg_one), Complex_new(T_zero, T_zero) >> >>)

pauli_y ==
    QuGate_new(<< << Complex_new(T_zero, T_zero), Complex_new(T_zero, T_one) >>,
                  << Complex_new(T_zero, T_one), Complex_new(T_zero, T_zero) >> >>)

\* Variant of pauli_z: the -1 is in the first row.
pauli_z_first_negated ==
    QuGate_new(<< << Complex_new(T_neg_one, T_zero), Complex_new(T_zero, T_zero) >>,
                  << Complex_new(T_zero, T_zero), Complex_new(T_one, T_zero) >> >>)

pauli_z ==
    QuGate_new(<< << Complex_new(T_one, T_zero), Complex_new(T_zero, T_zero) >>,
                  << Complex_new(T_zero, T_zero), Complex_new(T_neg_one, T_zero) >> >>)

\* Variant of norm_factor: the reciprocal is left out.
norm_factor_sqrt_2 == FSqrt(Prec, FInt(Prec, 2))

\* Variant of norm_factor: the square root is left out.
norm_factor_half == FDiv(Prec, T_one, FInt(Prec, 2))

\* T::one() / T::from(2.0).sqrt()
norm_factor == FDiv(Prec, T_one, FSqrt(Prec, FInt(Prec, 2)))

\* Variant of hadamard: the last entry is not negated.
hadamard_unsigned ==
    QuGate_new(<< << Complex_new(norm_factor, T_zero), Complex_new(norm_factor, T_zero) >>,
                  << Complex_new(norm_factor, T_zero), Complex_new(norm_factor, T_zero) >> >>)

hadamard ==
    QuGate_new(<< << Complex_new(norm_factor, T_zero), Complex_new(norm_factor, T_zero) >>,
                  << Complex_new(norm_factor, T_zero), Complex_new(FNeg(norm_factor), T_zero) >> >>)

GateNames == {"pauli_x", "pauli_y", "pauli_z", "hadamard"}

\* The gate a named constructor builds.
Gate(name) ==
    CASE name = "pauli_x" -> pauli_x
      [] name = "pauli_y" -> pauli_y
      [] name = "pauli_z" -> pauli_z
      [] name = "hadamard" -> hadamard

(***************************************************************************)
(* A caller of the crate                                                   *)
(***************************************************************************)
\* The longest chain of gate applications a caller makes.
MaxDepth == 3

\* Amplitudes a caller passes to Qubit::new: 0, 1, i, 1/2, 3/5 and (4/5) i.
C_0 == Complex_new(T_zero, T_zero)

C_1 == Complex_new(T_one, T_zero)

C_i == Complex_new(T_zero, T_one)

C_half == Complex_new(FDyadic(Prec, 1, 1), T_zero)

C_3_5 == Complex_new(FDiv(Prec, FInt(Prec, 3), FInt(Prec, 5)), T_zero)

C_4_5i == Complex_new(T_zero, FDiv(Prec, FInt(Prec, 4), FInt(Prec, 5)))

\* The pairs (alpha, beta) passed to Qubit::new: normalised ones, on and off
\* the basis, and ones that are not normalised.
NewArgs ==
    { << C_1, C_0 >>, << C_0, C_i >>, << C_i, C_0 >>,
      << C_3_5, C_4_5i >>, << C_4_5i, C_3_5 >>,
      << C_half, C_half >>, << C_1, C_i >>, << C_0, C_0 >> }

\* The largest f64 below 1: random::<f64>() draws from [0, 1).
MaxSample ==
    [sgn |-> 0, man |-> BSub(BShl(<< 1 >>, F64Prec), << 1 >>), exp |-> -F64Prec]

\* The samples drawn: 0, the f64 just below 1/2, 1/2, 1 - 2^-52 and
\* 1 - 2^-53.
Samples ==
    { FInt(F64Prec, 0),
      FSub(F64Prec, FDyadic(F64Prec, 1, 1), FDyadic(F64Prec, 1, F64Prec + 1)),
      FDyadic(F64Prec, 1, 1),
      FSub(F64Prec, FInt(F64Prec, 1), FDyadic(F64Prec, 1, F64Prec - 1)),
      MaxSample }

NoSample == [sgn |-> 0, man |-> << >>, exp |-> 1]

VARIABLES
    qubit,    \* the Qubit the caller holds
    ctor,     \* the constructor that built the Qubit the chain started from
    args,     \* the amplitudes passed to that constructor (<< >> if none)
    hist,     \* the names of the gates applied since, in order
    op,       \* the last call: a constructor, "apply" or "measure"
    ret,      \* the Qubit the last call returned
    sample    \* the sample the last call drew (NoSample if it drew none)

vars == << qubit, ctor, args, hist, op, ret, sample >>

\* The caller's state once it has built the Qubit q with constructor name.
Constructed(name, a, q) ==
    /\ qubit = q
    /\ ctor = name
    /\ args = a
    /\ hist = << >>
    /\ op = name
    /\ ret = q
    /\ sample = NoSample

\* let qubit = Qubit::new(a, b);
New == \E a \in NewArgs : Constructed("new", a, Qubit_new(a[1], a[2]))

\* let qubit = Qubit::zero();
Zero == Constructed("zero", << >>, Qubit_zero)

\* let qubit = Qubit::one();
One == Constructed("one", << >>, Qubit_one)

\* let qubit = Qubit::default();
Default == Constructed("default", << >>, Qubit_default)

\* The caller starts by building a Qubit.
Init == New \/ Zero \/ One \/ Default

\* let qubit = QuGate::<name>().apply(&qubit);
Apply ==
    \E name \in GateNames :
        /\ op # "measure"
        /\ Len(hist) < MaxDepth
        /\ ret' = QuGate_apply(Gate(name), qubit)
        /\ qubit' = ret'
        /\ hist' = Append(hist, name)
        /\ op' = "apply"
        /\ UNCHANGED << ctor, args, sample >>

\* let outcome = qubit.measure();  with r the sample random::<f64>() draws.
\* The caller's run ends with the measurement: the outcome is Qubit::zero()
\* or Qubit::one(), which a run can start from, and qubit is as it was.
Measure ==
    \E r \in Samples :
        /\ op # "measure"
        /\ ret' = measure(qubit, r)
        /\ sample' = r
        /\ op' = "measure"
        /\ UNCHANGED << qubit, ctor, args, hist >>

Next == Apply \/ Measure

Spec == Init /\ [][Next]_vars

(***************************************************************************)
(* Properties                                                              *)
(***************************************************************************)
FAbs(x) == IF IsZero(x) THEN x ELSE [x EXCEPT !.sgn = 0]

FLe(x, y) == ~FLt(y, x)

\* 2^-50: four units in the last place of the f64s just below 1.
Tolerance == FDyadic(Prec, 1, 50)

Near(x, y) == FLe(FAbs(FSub(Prec, x, y)), Tolerance)

CNear(x, y) == Near(x.re, y.re) /\ Near(x.im, y.im)

ProbabilitySum(q) == FAdd(Prec, zero_probability(q), one_probability(q))

\* The chain started from Qubit::zero() (or default()) or Qubit::one().
FromBasis == ctor \in {"zero", "one", "default"}

Basis == IF ctor = "one" THEN Qubit_one ELSE Qubit_zero

OtherBasis == IF ctor = "one" THEN Qubit_zero ELSE Qubit_one

C_neg_1 == Complex_new(T_neg_one, T_zero)

C_neg_i == Complex_new(T_zero, T_neg_one)

C_c == Complex_new(norm_factor, T_zero)

\* conj(x)
Conj(x) == Complex_new(x.re, FNeg(x.im))

\* The conjugate transpose of the 2x2 matrix m, times m.
Gram(m) ==
    [i \in 1..2 |-> [j \in 1..2 |->
        CAdd(CMul(Conj(m[1][i]), m[1][j]), CMul(Conj(m[2][i]), m[2][j]))]]

Identity == [i \in 1..2 |-> [j \in 1..2 |-> IF i = j THEN C_1 ELSE C_0]]

Unitary(gate) == Gram(gate.matrix) = Identity

NearUnitary(gate) ==
    \A i \in 1..2 : \A j \in 1..2 : CNear(Gram(gate.matrix)[i][j], Identity[i][j])

\* C1: measuring Qubit::zero() returns Qubit::zero() and measuring
\* Qubit::one() returns Qubit::one(), whatever sample in [0, 1) is drawn.
C1_MeasureBasis ==
    (op = "measure" /\ qubit \in {Qubit_zero, Qubit_one}) => ret = qubit

C1_Witness ==
    /\ op = "measure" /\ ctor = "zero" /\ hist = << >>
    /\ sample = MaxSample /\ ret = Qubit_zero

\* C2: pauli_x maps Qubit::zero() to Qubit::one() and Qubit::one() to
\* Qubit::zero(), and applied twice it gives back the basis state it started
\* from.
C2_PauliX ==
    (FromBasis /\ hist # << >> /\ \A k \in 1..Len(hist) : hist[k] = "pauli_x")
        => /\ Len(hist) = 1 => qubit = OtherBasis
           /\ Len(hist) = 2 => qubit = Basis

C2_Witness ==
    ctor = "one" /\ hist = << "pauli_x", "pauli_x" >> /\ qubit = Qubit_one

\* C3: pauli_y applied to Qubit::zero() gives alpha = 0 and beta = +i.
C3_PauliYZero ==
    (ctor = "zero" /\ hist = << "pauli_y" >>)
        => alpha(qubit) = C_0 /\ beta(qubit) = C_i

C3_Witness ==
    ctor = "zero" /\ hist = << "pauli_y" >> /\ op = "apply" /\ beta(ret) = C_i

\* C4: pauli_y is the matrix [[0, -i], [i, 0]]: it maps Qubit::one() to
\* (-i, 0) and any state (a, b) to (-i * b, i * a).
C4_PauliYMatrix ==
    hist = << "pauli_y" >>
        => /\ Gate(hist[1]).matrix[1][2] = C_neg_i
           /\ Gate(hist[1]).matrix[2][1] = C_i
           /\ ctor = "one" => qubit = Qubit_new(C_neg_i, C_0)
           /\ ctor = "new"
                  => qubit = Qubit_new(CMul(C_neg_i, args[2]), CMul(C_i, args[1]))

C4_Witness ==
    ctor = "one" /\ hist = << "pauli_y" >> /\ qubit = Qubit_new(C_i, C_0)

\* C5: pauli_z leaves Qubit::zero() as it is, and maps Qubit::one() to
\* (0, -1), whose probabilities() are (0, 1) as those of Qubit::one() are.
C5_PauliZ ==
    /\ (ctor = "zero" /\ hist = << "pauli_z" >>) => qubit = Qubit_zero
    /\ (ctor = "one" /\ hist = << "pauli_z" >>)
           => /\ qubit = Qubit_new(C_0, C_neg_1)
              /\ probabilities(qubit) = << T_zero, T_one >>
              /\ probabilities(qubit) = probabilities(Qubit_one)

C5_Witness ==
    ctor = "one" /\ hist = << "pauli_z" >> /\ beta(qubit) = C_neg_1

\* c = 1 / sqrt(2) as the code computes it is the f64 just below the real
\* number 1 / sqrt(2): c^2 < 1/2 < (c + 2^-53)^2, the squares taken exactly.
BelowInvSqrt2(c) ==
    LET up == FAdd(Prec, c, FDyadic(Prec, 1, Prec))
        half == FDyadic(Prec, 1, 1)
    IN  /\ FLt(FMul(2 * Prec, c, c), half)
        /\ FLt(half, FMul(2 * Prec, up, up))

\* C6: with c = 1 / sqrt(2), hadamard maps Qubit::zero() to (c, c); it maps
\* either basis state to a state whose two probabilities are equal; applied
\* twice to Qubit::zero() it gives Qubit::zero() back up to the rounding of
\* f64 (each amplitude within 2^-50 of that of Qubit::zero()).
C6_Hadamard ==
    /\ (ctor = "zero" /\ hist = << "hadamard" >>)
           => /\ qubit = Qubit_new(C_c, C_c)
              /\ BelowInvSqrt2(alpha(qubit).re)
    /\ (FromBasis /\ hist = << "hadamard" >>)
           => zero_probability(qubit) = one_probability(qubit)
    /\ (ctor = "zero" /\ hist = << "hadamard", "hadamard" >>)
           => /\ CNear(alpha(qubit), alpha(Qubit_zero))
              /\ CNear(beta(qubit), beta(Qubit_zero))

\* Twice hadamard on Qubit::zero(), where f64 does not give Qubit::zero().
C6_Witness ==
    /\ ctor = "zero" /\ hist = << "hadamard", "hadamard" >>
    /\ qubit # Qubit_zero
    /\ CNear(alpha(qubit), C_1)

\* C7: measure returns Qubit::zero() if the sample is below
\* zero_probability() and Qubit::one() if it is not, for normalised and other
\* states alike, and leaves the Qubit measured as it was.
C7_Measure ==
    /\ [](op = "measure"
            => /\ ret \in {Qubit_zero, Qubit_one}
               /\ ret = Qubit_zero <=> FLt(sample, zero_probability(qubit)))
    /\ [][op' = "measure" => qubit' = qubit]_vars

\* A state that is not normalised, measured with a sample equal to its
\* zero_probability(): the outcome is Qubit::one().
C7_Witness ==
    /\ op = "measure" /\ ~validate(qubit)
    /\ sample = zero_probability(qubit) /\ ~IsZero(sample)
    /\ ret = Qubit_one

\* C8: every state reached from Qubit::zero() or Qubit::one() by the named
\* gates has both probabilities() in [0, 1].
C8_ProbabilitiesInRange ==
    FromBasis
        => \A p \in {zero_probability(qubit), one_probability(qubit)} :
               FLe(T_zero, p) /\ FLe(p, T_one)

C8_Witness ==
    /\ ctor = "one" /\ Len(hist) = MaxDepth /\ op = "apply"
    /\ FLt(T_zero, zero_probability(qubit))
    /\ FLt(zero_probability(qubit), T_one)

\* The last gate applied.
LastGate == hist[Len(hist)]

PauliNames == {"pauli_x", "pauli_y", "pauli_z"}

\* C9 as stated: each named gate applied is unitary, its conjugate transpose
\* times the gate being the identity, and applied to a state whose
\* probabilities sum to 1 it gives a state whose probabilities sum to 1.
C9_Unitary ==
    [][op' = "apply"
        => /\ Unitary(Gate(LastGate'))
           /\ validate(qubit) => validate(qubit')]_vars

\* C9 amended: pauli_x, pauli_y and pauli_z are unitary and keep a
\* probability sum of 1 exactly; hadamard is unitary up to the rounding of
\* f64 only: its conjugate transpose times the gate is within 2^-50 of the
\* identity, and applied to a state whose probabilities sum to 1 it gives a
\* state whose probabilities sum to within 2^-50 of 1.
C9_UnitaryUpToRounding ==
    [][op' = "apply"
        => IF LastGate' \in PauliNames
           THEN /\ Unitary(Gate(LastGate'))
                /\ validate(qubit) => validate(qubit')
           ELSE /\ NearUnitary(Gate(LastGate'))
                /\ validate(qubit) => Near(ProbabilitySum(qubit'), T_one)]_vars

\* hadamard applied to the normalised Qubit::zero(): the probabilities of
\* the result sum to less than 1.
C9_Witness ==
    /\ ctor = "zero" /\ hist = << "hadamard" >> /\ op = "apply"
    /\ FLt(ProbabilitySum(qubit), T_one)
    /\ ~Unitary(hadamard)

\* C10: Qubit::new stores the amplitudes it is given, normalised or not;
\* validate() is true exactly if zero_probability() + one_probability() is 1
\* in f64; Qubit::new(0.5, 0.5) is built and validate() is false for it.
C10_NewAndValidate ==
    /\ (ctor = "new" /\ hist = << >>)
           => /\ alpha(qubit) = args[1] /\ beta(qubit) = args[2]
              /\ get_state(qubit) = args
    /\ validate(qubit) <=> ProbabilitySum(qubit) = T_one
    /\ (ctor = "new" /\ hist = << >> /\ args = << C_half, C_half >>)
           => ~validate(qubit)

C10_Witness ==
    /\ ctor = "new" /\ args = << C_half, C_half >> /\ op = "new"
    /\ qubit = Qubit_new(C_half, C_half)
    /\ ProbabilitySum(qubit) = FDyadic(Prec, 1, 1)
    /\ ~validate(qubit)

====
